---- MODULE Spec2Model ----
(***************************************************************************)
(* Model of the UEFI firmware-volume parser of src/firmware:               *)
(* firmware_utils.py (FirmwareVolume, FfsFile, EfiSection) driven by       *)
(* parse_uefi.py (main).                                                   *)
(*                                                                         *)
(* The input blob is a Python bytes object.  It is kept as its length and  *)
(* the bytes that are not zero (data.bytes is a function on the offsets    *)
(* that the blob sets; every other offset below data.len reads as 0), so   *)
(* that blobs long enough to reach a file area at offset 0x465F stay small *)
(* in the state.  A slice of the blob is a view [lo, hi) of absolute       *)
(* offsets, cut the way Python cuts slices.                                *)
(***************************************************************************)
EXTENDS Integers, Sequences, FiniteSets, TLC

VARIABLES
    data,           \* FirmwareVolume.data: the input blob
    pc,             \* position of main / FirmwareVolume.parse
    err,            \* exception raised by the parse ("none" when none)
    fv_length,      \* FirmwareVolume.fv_length
    header_length,  \* FirmwareVolume.header_length
    block_map,      \* FirmwareVolume.block_map
    files,          \* FirmwareVolume.files
    offset,         \* parse_header: block-map cursor
    ptr,            \* parse_files: file cursor
    cur,            \* parse_files: the FfsFile f being parsed
    sec_offset,     \* FfsFile.parse_sections: section cursor
    calls,          \* number of FirmwareVolume.parse calls made on the object
    idx,            \* main: index of the next file to dump
    outdir,         \* TRUE once os.makedirs(outdir) has run
    written,        \* artifacts written by main, in order
    exit_code       \* process exit status (-1 while running)

vars == <<data, pc, err, fv_length, header_length, block_map, files, offset,
          ptr, cur, sec_offset, calls, idx, outdir, written, exit_code>>

(***************************************************************************)
(* Bounds of the model.                                                    *)
(***************************************************************************)
\* parse_files loop iterations followed on one object (files has no limit)
MaxFiles == 4
\* parse_sections loop iterations followed in one file
MaxSections == 3
\* FirmwareVolume.parse calls a caller makes on one object
MaxCalls == 2

(***************************************************************************)
(* Integers and bytes.                                                     *)
(***************************************************************************)
Min(a, b) == IF a < b THEN a ELSE b
Max(a, b) == IF a > b THEN a ELSE b

\* struct "<H": unsigned 16-bit little-endian
U16LE(b0, b1) == b0 + 256 * b1
\* three-byte little-endian size of FFS and section headers
U24LE(b0, b1, b2) == b0 + 256 * (b1 + 256 * b2)

align_up(x, align) == ((x + align - 1) \div align) * align

\* b"_FVH"
EFI_FV_SIGNATURE == <<95, 70, 86, 72>>
EFI_SECTION_COMPR == 1

\* data[i] for 0 <= i < data.len
ByteAt(i) == IF i \in DOMAIN data.bytes THEN data.bytes[i] ELSE 0

\* the view of the whole blob
Whole == [lo |-> 0, hi |-> data.len]
VLen(v) == v.hi - v.lo
\* v[a:b] for 0 <= a, 0 <= b
Sub(v, a, b) ==
    LET a2 == Min(a, VLen(v))
        b2 == Min(b, VLen(v))
    IN  [lo |-> v.lo + a2, hi |-> v.lo + Max(a2, b2)]
\* v[i] for 0 <= i < len(v)
At(v, i) == ByteAt(v.lo + i)
\* bytes(v) as a sequence
Bytes(v) == [i \in 1..VLen(v) |-> ByteAt(v.lo + i - 1)]

\* struct "<Q" at hdr[0x20:0x28]; the blobs of the model keep it below 2^31
U64LE(v, o) ==
    At(v, o) + 256 * (At(v, o + 1) + 256 * (At(v, o + 2) + 256 * (At(v, o + 3)
      + 256 * (At(v, o + 4) + 256 * (At(v, o + 5) + 256 * (At(v, o + 6)
      + 256 * At(v, o + 7)))))))

(***************************************************************************)
(* The input blobs.  A blob is laid out from a few choices: its length,    *)
(* the four bytes at 0x28, an optional second _FVH at 0x40, the u64 at     *)
(* 0x20, the bytes from 0x30 on (block map), and FFS records placed from   *)
(* the offset at which parse_files starts its walk.                        *)
(***************************************************************************)
RECURSIVE LEBytes(_, _)
LEBytes(n, k) == IF k = 0 THEN <<>> ELSE <<n % 256>> \o LEBytes(n \div 256, k - 1)

Zeros(n) == [i \in 1..n |-> 0]
Pad(s, a) == s \o Zeros(align_up(Len(s), a) - Len(s))
Patch(off, s) == [i \in off..(off + Len(s) - 1) |-> s[i - off + 1]]

\* the offset the walk starts from when the signature is _FVH
GenBase == U16LE(EFI_FV_SIGNATURE[1], EFI_FV_SIGNATURE[2])

GuidBytes(g) == IF g = 0 THEN Zeros(16) ELSE [i \in 1..16 |-> g + i - 1]
\* GUID[16], Type, Attributes, Size[3], State, IntegrityCheck[2]
FfsHeader(g, size) == GuidBytes(g) \o <<2, 0>> \o LEBytes(size, 3) \o <<248, 0, 0>>

\* Type, Size[3], then the bytes after the common header
SecPE32 == <<16, 8, 0, 0, 170, 187, 204, 221>>
SecOdd == <<16, 6, 0, 0, 5, 6>>
SecNine == <<16, 9, 0, 0, 170, 187, 204, 221>>
SecZero == <<16, 0, 0, 0>>
SecTiny == <<16, 3, 0, 0>>
SecOver == <<17, 64, 0, 0, 1, 2, 3, 4>>
\* a section declaring 0xE8 bytes: the whole body of a record of size 0x100
SecFill == <<16, 232, 0, 0, 1, 2, 3, 4>>
\* compression section: AlgID, DecompSz[3], stream
SecLzma(alg, dsz, magic) == <<1, 12, 0, 0, alg, dsz, 0, 0, magic, 7, 8, 9>>
SecLzmaShort == <<1, 6, 0, 0, 1, 3>>
\* a compression section declaring 16 bytes, 12 of them in the record
SecLzmaOver == <<1, 16, 0, 0, 1, 3, 0, 0, 253, 7, 8, 9>>

Bodies ==
    { <<>>, SecPE32, SecNine, SecZero, SecTiny, SecOver,
      Pad(SecOdd, 4) \o SecPE32,
      SecPE32 \o SecOver,
      SecPE32 \o SecTiny,
      SecLzma(1, 3, 253),
      SecLzma(1, 5, 253),
      SecLzmaShort,
      SecLzmaOver,
      SecPE32 \o SecLzma(1, 3, 253) \o SecPE32,
      SecPE32 \o SecLzma(2, 3, 253) \o SecPE32,
      SecPE32 \o SecLzma(1, 3, 0) \o SecPE32,
      SecPE32 \o SecLzma(0, 3, 253) }

\* a record is its GUID seed, its declared size and the bytes of its body
GenFiles ==
    { [g |-> 1, size |-> 24 + Len(b), body |-> b] : b \in Bodies }
      \cup { [g |-> 1, size |-> n, body |-> <<>>] : n \in {0, 8, 17, 23, 27, 256} }
      \cup { [g |-> 1, size |-> 256, body |-> b] : b \in {SecPE32, SecFill} }
      \cup { [g |-> 0, size |-> 24, body |-> <<>>] }

GenSecond ==
    { [g |-> 33, size |-> 24, body |-> <<>>],
      [g |-> 33, size |-> 32, body |-> SecPE32],
      [g |-> 33, size |-> 256, body |-> SecFill] }

FileBytes(f) == Pad(FfsHeader(f.g, f.size) \o f.body, 8)

RECURSIVE LayoutBytes(_)
LayoutBytes(fs) ==
    IF fs = <<>> THEN <<>> ELSE FileBytes(Head(fs)) \o LayoutBytes(Tail(fs))

Layouts ==
    {<<>>} \cup { <<f>> : f \in GenFiles }
      \cup { <<f, s>> : f \in { x \in GenFiles : x.size = 24 + Len(x.body) },
                        s \in GenSecond }

\* the blob of one choice
MkData(len, sig, alt, fvlen, bm, fs) ==
    LET all == Patch(GenBase, LayoutBytes(fs))
               @@ Patch(32, LEBytes(fvlen, 8))
               @@ Patch(40, sig)
               @@ Patch(48, bm)
               @@ (IF alt THEN Patch(64, EFI_FV_SIGNATURE) ELSE <<>>)
        keep == { i \in DOMAIN all : i < len /\ all[i] # 0 }
    IN  [len |-> len, bytes |-> [i \in keep |-> all[i]]]

\* (1, 0x40), (0, 0)
BmOne == <<1, 0, 64, 0>>
BlockMaps ==
    { <<>>, BmOne, BmOne \o <<2, 0, 16, 0>>, <<0, 0, 5, 0>> \o BmOne,
      <<7, 0, 0, 0>> \o BmOne, <<95, 70, 64, 0>> }

\* blobs that end in or just after the FV header
HeaderInputs ==
    { MkData(len, sig, alt, fvlen, bm, <<>>) :
        len \in {0, 43, 44, 48, 52, 56, 64, 80},
        sig \in {EFI_FV_SIGNATURE, <<88, 70, 86, 72>>, <<95, 70, 86, 0>>},
        alt \in BOOLEAN,
        fvlen \in {0, 64, GenBase + 64},
        bm \in BlockMaps }

\* blobs that hold a file area where the walk looks for it
FileInputs ==
    UNION { { MkData(len, EFI_FV_SIGNATURE, FALSE, GenBase + k, BmOne, fs) :
                len \in {GenBase + k} \cup {GenBase + j : j \in {0, 16, 17, 20, 21, 30, 40}} } :
            k \in {24, 25, 32, 40, 56, 57, 64, 96}, fs \in Layouts }

Inputs == HeaderInputs \cup FileInputs

(***************************************************************************)
(* FfsFile and EfiSection (firmware_utils.py).  Each parse operator gives  *)
(* the exception it raises ("none" when it returns) and the object built.  *)
(***************************************************************************)
Reverse(s) == [i \in 1..Len(s) |-> s[Len(s) + 1 - i]]

\* lzma.decompress, abstracted: a stream is accepted when it starts with the
\* first magic byte of an .xz container; its plain text is a function of the
\* bytes that follow
lzma_decompress(stream) ==
    IF Len(stream) >= 1 /\ stream[1] = 253
    THEN [ok |-> TRUE, out |-> Reverse(Tail(stream))]
    ELSE [ok |-> FALSE, out |-> <<>>]

\* uuid.UUID(bytes_le=name).bytes for a 16-byte name
UuidBytesLe(name) ==
    <<name[4], name[3], name[2], name[1], name[6], name[5], name[8], name[7]>>
      \o SubSeq(name, 9, 16)

\* FfsFile.is_terminator
is_terminator(raw) == Bytes(Sub(raw, 0, 16)) = Zeros(16)

NoFile == [fv_offset |-> -1]

\* FfsFile.__init__, FfsFile.parse_header and the data slice of FfsFile.parse
FfsFile_parse_header(raw, fv_offset) ==
    LET name == Sub(raw, 0, 16)
        size_bytes == Sub(raw, 18, 21)
        size == U24LE(At(size_bytes, 0), At(size_bytes, 1), At(size_bytes, 2))
    IN  IF VLen(name) # 16 THEN [err |-> "ValueError", f |-> NoFile]
        ELSE IF VLen(raw) < 18 THEN [err |-> "StructError", f |-> NoFile]
        ELSE IF VLen(size_bytes) < 3 THEN [err |-> "IndexError", f |-> NoFile]
        ELSE IF VLen(raw) <= 21 THEN [err |-> "IndexError", f |-> NoFile]
        ELSE [err |-> "none",
              f |-> [fv_offset |-> fv_offset,
                     raw |-> raw,
                     guid |-> UuidBytesLe(Bytes(name)),
                     type |-> At(raw, 16),
                     attributes |-> At(raw, 17),
                     size |-> size,
                     state |-> At(raw, 21),
                     data |-> Sub(raw, 24, size),
                     sections |-> <<>>]]

NoSection == [file_offset |-> -1]

\* EfiSection.__init__ and EfiSection.parse
EfiSection_parse(raw, file_offset) ==
    LET hdr == Sub(raw, 0, 4)
        type == At(hdr, 0)
        size == U24LE(At(hdr, 1), At(hdr, 2), At(hdr, 3))
        attrs == IF VLen(raw) > 4 THEN At(raw, 4) ELSE 0
        body == Sub(raw, 4, size)
        alg == At(body, 0)
        dsz == U24LE(At(body, 1), At(body, 2), At(body, 3))
        comp_data == Sub(body, 4, VLen(body))
        plain == lzma_decompress(Bytes(comp_data))
        sec(payload) == [file_offset |-> file_offset, type |-> type, size |-> size,
                         attrs |-> attrs, payload |-> payload]
    IN  IF VLen(hdr) < 4 THEN [err |-> "IndexError", sec |-> NoSection]
        ELSE IF type = EFI_SECTION_COMPR /\ attrs = 1
        THEN IF VLen(body) < 4 THEN [err |-> "IndexError", sec |-> NoSection]
             ELSE IF alg # 1 THEN [err |-> "NotImplementedError", sec |-> NoSection]
             ELSE IF ~plain.ok THEN [err |-> "LZMAError", sec |-> NoSection]
             ELSE [err |-> "none", sec |-> sec(plain.out)]
        ELSE [err |-> "none", sec |-> sec(Bytes(body))]

\* a file stride rounded to the section alignment instead of the file's
FfsFile_size_padded_4(f) == align_up(f.size, 4)

\* FfsFile.size_padded and EfiSection.size_padded
FfsFile_size_padded(f) == align_up(f.size, 8)
EfiSection_size_padded(sec) == align_up(sec.size, 4)

\* EfiSection.type_name
type_name(sec) ==
    CASE sec.type = 1 -> "Compression"
      [] sec.type = 16 -> "PE32"
      [] sec.type = 17 -> "PIC"
      [] sec.type = 32 -> "Version"
      [] sec.type = 36 -> "GUID-defined"
      [] OTHER -> <<"Unknown", sec.type>>

(***************************************************************************)
(* The state machine: parse_uefi.main driving FirmwareVolume.parse.        *)
(***************************************************************************)
Init ==
    /\ data \in Inputs
    /\ pc = "start"
    /\ err = "none"
    /\ fv_length = 0
    /\ header_length = 0
    /\ block_map = <<>>
    /\ files = <<>>
    /\ offset = 0
    /\ ptr = 0
    /\ cur = NoFile
    /\ sec_offset = 0
    /\ calls = 0
    /\ idx = 0
    /\ outdir = FALSE
    /\ written = <<>>
    /\ exit_code = -1

\* an exception leaves the parse
Raise(e) ==
    /\ err' = e
    /\ pc' = "failed"

\* fv.parse() is entered: by main, or once more by a caller of the library
parse ==
    /\ \/ pc = "start"
       \/ pc = "parsed" /\ calls < MaxCalls
    /\ pc' = "parse_header"
    /\ calls' = calls + 1
    /\ UNCHANGED <<data, err, fv_length, header_length, block_map, files, offset,
                   ptr, cur, sec_offset, idx, outdir, written, exit_code>>

\* a parse_header that takes the signature where it finds one (0x40 or 0x28)
SignatureFound(hdr) ==
    IF data.len >= 68 /\ [i \in 1..4 |-> ByteAt(63 + i)] = EFI_FV_SIGNATURE
    THEN EFI_FV_SIGNATURE
    ELSE Bytes(Sub(hdr, 40, 44))

\* the 4 bytes compared with EFI_FV_SIGNATURE
Signature(hdr) == Bytes(Sub(hdr, 40, 44))
\* the u16 stored in header_length
HeaderLengthField(hdr) == U16LE(At(hdr, 40), At(hdr, 41))

\* FirmwareVolume.parse_header up to the block-map loop
parse_header ==
    /\ pc = "parse_header"
    /\ LET hdr == Sub(Whole, 0, 48)
       IN  IF VLen(hdr) < 44
           THEN /\ Raise("StructError")
                /\ UNCHANGED <<fv_length, header_length, offset>>
           ELSE IF Signature(hdr) # EFI_FV_SIGNATURE
           THEN /\ Raise("BadSignature")
                /\ UNCHANGED <<fv_length, header_length, offset>>
           ELSE /\ fv_length' = U64LE(hdr, 32)
                /\ header_length' = HeaderLengthField(hdr)
                /\ offset' = 48
                /\ pc' = "block_map"
                /\ err' = err
    /\ UNCHANGED <<data, block_map, files, ptr, cur, sec_offset, calls, idx,
                   outdir, written, exit_code>>

\* the break test of the block-map loop
BlockMapEnds(num, blen) == num = 0 \/ blen = 0

\* one iteration of the block-map loop; on break, parse_files is entered
parse_block_map ==
    /\ pc = "block_map"
    /\ IF data.len - offset < 4
       THEN /\ Raise("StructError")
            /\ UNCHANGED <<block_map, offset, ptr>>
       ELSE LET num == U16LE(ByteAt(offset), ByteAt(offset + 1))
                blen == U16LE(ByteAt(offset + 2), ByteAt(offset + 3))
            IN  /\ offset' = offset + 4
                /\ err' = err
                /\ IF BlockMapEnds(num, blen)
                   THEN /\ pc' = "parse_files"
                        /\ ptr' = header_length
                        /\ UNCHANGED block_map
                   ELSE /\ block_map' = Append(block_map, <<num, blen>>)
                        /\ UNCHANGED <<pc, ptr>>
    /\ UNCHANGED <<data, fv_length, header_length, files, cur, sec_offset, calls,
                   idx, outdir, written, exit_code>>

\* the loop test of parse_files
FileLoopRuns(p, end) == p + 24 < end

\* parse_files: the loop test, FfsFile(...), is_terminator and the start of f.parse()
parse_files ==
    /\ pc = "parse_files"
    /\ IF ~FileLoopRuns(ptr, fv_length)
       THEN /\ pc' = "parsed"
            /\ UNCHANGED <<err, cur, sec_offset>>
       ELSE LET raw == Sub(Whole, ptr, data.len)
                r == FfsFile_parse_header(raw, ptr)
            IN  IF is_terminator(raw)
                THEN /\ pc' = "parsed"
                     /\ UNCHANGED <<err, cur, sec_offset>>
                ELSE IF r.err # "none"
                THEN /\ Raise(r.err)
                     /\ UNCHANGED <<cur, sec_offset>>
                ELSE /\ cur' = r.f
                     /\ sec_offset' = 24
                     /\ pc' = "parse_sections"
                     /\ err' = err
    /\ UNCHANGED <<data, fv_length, header_length, block_map, files, offset, ptr,
                   calls, idx, outdir, written, exit_code>>

\* the loop test of FfsFile.parse_sections
SectionLoopRuns(off, end) == off + 4 <= end

\* one iteration of the loop of FfsFile.parse_sections
parse_sections ==
    /\ pc = "parse_sections"
    /\ SectionLoopRuns(sec_offset, cur.size)
    /\ Len(cur.sections) < MaxSections
    /\ LET r == EfiSection_parse(Sub(cur.raw, sec_offset, cur.size), sec_offset)
       IN  IF r.err # "none"
           THEN /\ Raise(r.err)
                /\ UNCHANGED <<cur, sec_offset>>
           ELSE /\ cur' = [cur EXCEPT !.sections = Append(@, r.sec)]
                /\ sec_offset' = sec_offset + EfiSection_size_padded(r.sec)
                /\ UNCHANGED <<pc, err>>
    /\ UNCHANGED <<data, fv_length, header_length, block_map, files, offset, ptr,
                   calls, idx, outdir, written, exit_code>>

\* f.parse() returns: the file is appended and the cursor moves on
file_parsed ==
    /\ pc = "parse_sections"
    /\ ~SectionLoopRuns(sec_offset, cur.size)
    /\ Len(files) < MaxFiles
    /\ files' = Append(files, cur)
    /\ ptr' = ptr + FfsFile_size_padded(cur)
    /\ pc' = "parse_files"
    /\ UNCHANGED <<data, err, fv_length, header_length, block_map, offset, cur,
                   sec_offset, calls, idx, outdir, written, exit_code>>

\* the artifacts of one file: its raw record, then one per section
FileArtifacts(i, ffs) ==
    <<[name |-> <<"file", i, ffs.guid, "ffs">>,
       content |-> Bytes(Sub(ffs.raw, 0, ffs.size))]>>
      \o [j \in 1..Len(ffs.sections) |->
            [name |-> <<"file", i, "sec", j - 1, type_name(ffs.sections[j]), "bin">>,
             content |-> ffs.sections[j].payload]]

\* a main that, when the parse fails inside a file, still dumps that file
main_except_dumps_file ==
    /\ pc = "failed"
    /\ pc' = "exited"
    /\ exit_code' = 1
    /\ outdir' = (cur # NoFile)
    /\ written' = IF cur # NoFile THEN FileArtifacts(Len(files), cur) ELSE <<>>
    /\ UNCHANGED <<data, err, fv_length, header_length, block_map, files, offset,
                   ptr, cur, sec_offset, calls, idx>>

\* main: except Exception -> sys.exit(1)
main_except ==
    /\ pc = "failed"
    /\ pc' = "exited"
    /\ exit_code' = 1
    /\ UNCHANGED <<data, err, fv_length, header_length, block_map, files, offset,
                   ptr, cur, sec_offset, calls, idx, outdir, written>>

\* a main that creates the output directory before it parses
makedirs_before_parse ==
    /\ pc \in {"start", "parsed"}
    /\ pc' = IF pc = "parsed" THEN "extract" ELSE pc
    /\ ~outdir \/ pc = "parsed"
    /\ outdir' = TRUE
    /\ idx' = 0
    /\ UNCHANGED <<data, err, fv_length, header_length, block_map, files, offset,
                   ptr, cur, sec_offset, calls, written, exit_code>>

\* a main that also dumps the whole volume as fv.bin, as extract_fw does
makedirs_writes_fv ==
    /\ pc = "parsed"
    /\ pc' = "extract"
    /\ outdir' = TRUE
    /\ idx' = 0
    /\ written' = <<[name |-> <<"fv", "bin">>, content |-> Sub(Whole, 0, fv_length)]>>
    /\ UNCHANGED <<data, err, fv_length, header_length, block_map, files, offset,
                   ptr, cur, sec_offset, calls, exit_code>>

\* main: os.makedirs(args.outdir, exist_ok=True)
makedirs ==
    /\ pc = "parsed"
    /\ pc' = "extract"
    /\ outdir' = TRUE
    /\ idx' = 0
    /\ UNCHANGED <<data, err, fv_length, header_length, block_map, files, offset,
                   ptr, cur, sec_offset, calls, written, exit_code>>

\* main: one iteration of the loop over fv.files
extract_file ==
    /\ pc = "extract"
    /\ idx < Len(files)
    /\ written' = written \o FileArtifacts(idx, files[idx + 1])
    /\ idx' = idx + 1
    /\ UNCHANGED <<data, pc, err, fv_length, header_length, block_map, files,
                   offset, ptr, cur, sec_offset, calls, outdir, exit_code>>

\* main: "Extraction complete."
complete ==
    /\ pc = "extract"
    /\ idx = Len(files)
    /\ pc' = "done"
    /\ exit_code' = 0
    /\ UNCHANGED <<data, err, fv_length, header_length, block_map, files, offset,
                   ptr, cur, sec_offset, calls, idx, outdir, written>>

Next ==
    \/ parse
    \/ parse_header
    \/ parse_block_map
    \/ parse_files
    \/ parse_sections
    \/ file_parsed
    \/ main_except
    \/ makedirs
    \/ extract_file
    \/ complete

Spec == Init /\ [][Next]_vars

(***************************************************************************)
(* extract_fw.py: the second extractor of the repository, with its own     *)
(* FirmwareVolume, FfsFile and EfiSection.  It runs on the same variables; *)
(* its positions are the pc values that start with "x_".                   *)
(***************************************************************************)
\* FVH_OFFSET = 0x40
FVH_OFFSET == 64
\* ALIGN = 8
ALIGN == 8

\* blobs for extract_fw: a block map is also laid where it reads one (0x8C)
XData(d, bm) ==
    LET all == Patch(140, bm)
        keep == { i \in DOMAIN all : i < d.len /\ all[i] # 0 }
    IN  [len |-> d.len, bytes |-> [i \in keep |-> all[i]] @@ d.bytes]

XHeaderInputs ==
    { XData(MkData(len, sig, alt, fvlen, <<>>, <<>>), bm) :
        len \in {0, 60, 68, 100, 143, 144, 148, 152, 160},
        sig \in {EFI_FV_SIGNATURE, <<88, 70, 86, 72>>},
        alt \in BOOLEAN,
        fvlen \in {0, 64},
        bm \in BlockMaps }

XFileInputs ==
    UNION { { XData(MkData(len, EFI_FV_SIGNATURE, TRUE, GenBase + k, <<>>, fs), BmOne) :
                len \in {GenBase + k} \cup {GenBase + j : j \in {0, 16, 17, 20, 21, 30, 40}} } :
            k \in {24, 25, 32, 40, 56, 57, 64, 96}, fs \in Layouts }

XInputs == XHeaderInputs \cup XFileInputs

\* data.find(EFI_FV_SIG, start): the lowest offset from start on, or -1
Find(start) ==
    LET hits == { i \in DOMAIN data.bytes :
                    /\ i >= start
                    /\ i + 4 <= data.len
                    /\ [k \in 1..4 |-> ByteAt(i + k - 1)] = EFI_FV_SIGNATURE }
    IN  IF hits = {} THEN -1 ELSE CHOOSE i \in hits : \A j \in hits : i <= j

\* int.from_bytes(v, 'little') for a slice of at most three bytes
FromBytesLE(v) ==
    (IF VLen(v) >= 1 THEN At(v, 0) ELSE 0)
      + 256 * ((IF VLen(v) >= 2 THEN At(v, 1) ELSE 0)
      + 256 * (IF VLen(v) >= 3 THEN At(v, 2) ELSE 0))

\* extract_fw.FfsFile.__init__
xfw_FfsFile(raw, off) ==
    IF VLen(Sub(raw, 0, 16)) # 16
    THEN [err |-> "ValueError", f |-> NoFile]
    ELSE [err |-> "none",
          f |-> [fv_offset |-> off,
                 raw |-> raw,
                 guid |-> UuidBytesLe(Bytes(Sub(raw, 0, 16))),
                 size |-> FromBytesLE(Sub(raw, 18, 21)),
                 sections |-> <<>>]]

\* extract_fw.EfiSection.__init__ and extract_fw.EfiSection.parse
xfw_EfiSection_parse(raw, off) ==
    LET type == At(raw, 0)
        size == FromBytesLE(Sub(raw, 1, 4))
        attrs == IF VLen(raw) > 4 THEN At(raw, 4) ELSE 0
        body == Sub(raw, 4, size)
        alg == At(body, 0)
        plain == lzma_decompress(Bytes(Sub(body, 4, VLen(body))))
        sec(payload) == [file_offset |-> off, type |-> type, size |-> size,
                         attrs |-> attrs, payload |-> payload]
    IN  IF VLen(raw) = 0 THEN [err |-> "IndexError", sec |-> NoSection]
        ELSE IF type = 1
        THEN IF VLen(body) = 0 THEN [err |-> "IndexError", sec |-> NoSection]
             ELSE IF alg # 1 THEN [err |-> "NotImplementedError", sec |-> NoSection]
             ELSE IF ~plain.ok THEN [err |-> "LZMAError", sec |-> NoSection]
             ELSE [err |-> "none", sec |-> sec(plain.out)]
        ELSE [err |-> "none", sec |-> sec(Bytes(body))]

\* extract_fw.EfiSection.type_name
xfw_type_name(sec) ==
    CASE sec.type = 1 -> "Comp"
      [] sec.type = 16 -> "PE32"
      [] sec.type = 17 -> "PIC"
      [] sec.type = 32 -> "Ver"
      [] sec.type = 36 -> "GUID"
      [] OTHER -> <<"Sec", sec.type>>

InitX ==
    /\ data \in XInputs
    /\ pc = "x_parse_header"
    /\ err = "none"
    /\ fv_length = 0
    /\ header_length = 0
    /\ block_map = <<>>
    /\ files = <<>>
    /\ offset = 0
    /\ ptr = 0
    /\ cur = NoFile
    /\ sec_offset = 0
    /\ calls = 0
    /\ idx = 0
    /\ outdir = FALSE
    /\ written = <<>>
    /\ exit_code = -1

\* an exception leaves parse_header or parse_files
XRaise(e) ==
    /\ err' = e
    /\ pc' = "x_failed"

\* extract_fw.FirmwareVolume.parse_header up to the block-map loop
xfw_parse_header ==
    /\ pc = "x_parse_header"
    /\ LET sig_off == Find(FVH_OFFSET)
           hdr == [lo |-> Min(sig_off - 64, data.len), hi |-> Min(sig_off + 64, data.len)]
       IN  IF sig_off < 0
           THEN /\ XRaise("HeaderNotFound")
                /\ UNCHANGED <<fv_length, header_length, offset>>
           ELSE IF VLen(hdr) < 44
           THEN /\ XRaise("StructError")
                /\ UNCHANGED <<fv_length, header_length, offset>>
           ELSE IF Bytes(Sub(hdr, 40, 44)) # EFI_FV_SIGNATURE
           THEN /\ XRaise("BadSignature")
                /\ UNCHANGED <<fv_length, header_length, offset>>
           ELSE /\ fv_length' = U64LE(hdr, 32)
                /\ header_length' = U16LE(At(hdr, 40), At(hdr, 41))
                /\ offset' = sig_off + 76
                /\ pc' = "x_block_map"
                /\ err' = err
    /\ calls' = calls + 1
    /\ UNCHANGED <<data, block_map, files, ptr, cur, sec_offset, idx, outdir,
                   written, exit_code>>

\* one iteration of the block-map loop of extract_fw; on break main calls parse_files
xfw_block_map ==
    /\ pc = "x_block_map"
    /\ IF data.len - offset < 4
       THEN /\ XRaise("StructError")
            /\ UNCHANGED <<block_map, offset, ptr>>
       ELSE LET num == U16LE(ByteAt(offset), ByteAt(offset + 1))
                blen == U16LE(ByteAt(offset + 2), ByteAt(offset + 3))
            IN  /\ offset' = offset + 4
                /\ err' = err
                /\ IF num = 0 \/ blen = 0
                   THEN /\ pc' = "x_parse_files"
                        /\ ptr' = header_length
                        /\ UNCHANGED block_map
                   ELSE /\ block_map' = Append(block_map, <<num, blen>>)
                        /\ UNCHANGED <<pc, ptr>>
    /\ UNCHANGED <<data, fv_length, header_length, files, cur, sec_offset, calls,
                   idx, outdir, written, exit_code>>

\* extract_fw.FirmwareVolume.parse_files: loop test, terminator test, FfsFile(...)
xfw_parse_files ==
    /\ pc = "x_parse_files"
    /\ IF ~(ptr + 24 < fv_length)
       THEN /\ pc' = "x_parsed"
            /\ UNCHANGED <<err, cur, sec_offset>>
       ELSE LET raw == Sub(Whole, ptr, ptr + 24)
                size == FromBytesLE(Sub(raw, 18, 21))
                r == xfw_FfsFile(Sub(Whole, ptr, ptr + size), ptr)
            IN  IF VLen(Sub(raw, 0, 16)) # 16
                THEN /\ XRaise("ValueError")
                     /\ UNCHANGED <<cur, sec_offset>>
                ELSE IF Bytes(Sub(raw, 0, 16)) = Zeros(16)
                THEN /\ pc' = "x_parsed"
                     /\ UNCHANGED <<err, cur, sec_offset>>
                ELSE IF r.err # "none"
                THEN /\ XRaise(r.err)
                     /\ UNCHANGED <<cur, sec_offset>>
                ELSE /\ cur' = r.f
                     /\ sec_offset' = 24
                     /\ pc' = "x_parse_sections"
                     /\ err' = err
    /\ UNCHANGED <<data, fv_length, header_length, block_map, files, offset, ptr,
                   calls, idx, outdir, written, exit_code>>

\* the stride of the section walk of extract_fw.FfsFile.parse
xfw_section_stride(sec) == align_up(sec.size, ALIGN)

\* one iteration of the loop of extract_fw.FfsFile.parse
xfw_parse_sections ==
    /\ pc = "x_parse_sections"
    /\ sec_offset + 4 <= cur.size
    /\ Len(cur.sections) < MaxSections
    /\ LET r == xfw_EfiSection_parse(Sub(cur.raw, sec_offset, VLen(cur.raw)), sec_offset)
       IN  IF r.err # "none"
           THEN /\ XRaise(r.err)
                /\ UNCHANGED <<cur, sec_offset>>
           ELSE /\ cur' = [cur EXCEPT !.sections = Append(@, r.sec)]
                /\ sec_offset' = sec_offset + xfw_section_stride(r.sec)
                /\ UNCHANGED <<pc, err>>
    /\ UNCHANGED <<data, fv_length, header_length, block_map, files, offset, ptr,
                   calls, idx, outdir, written, exit_code>>

\* ffs.parse() returns: the file is appended, the cursor moves by the size of
\* the 24-byte header read in parse_files
xfw_file_parsed ==
    /\ pc = "x_parse_sections"
    /\ ~(sec_offset + 4 <= cur.size)
    /\ Len(files) < MaxFiles
    /\ files' = Append(files, cur)
    /\ ptr' = ptr + align_up(FromBytesLE(Sub(Sub(Whole, ptr, ptr + 24), 18, 21)), ALIGN)
    /\ pc' = "x_parse_files"
    /\ UNCHANGED <<data, err, fv_length, header_length, block_map, offset, cur,
                   sec_offset, calls, idx, outdir, written, exit_code>>

\* extract_fw.main: a ValueError is caught (sys.exit(1)); any other exception
\* ends the interpreter with a traceback, also with status 1
xfw_main_exit ==
    /\ pc = "x_failed"
    /\ pc' = "x_exited"
    /\ exit_code' = 1
    /\ UNCHANGED <<data, err, fv_length, header_length, block_map, files, offset,
                   ptr, cur, sec_offset, calls, idx, outdir, written>>

\* extract: os.makedirs and the fv.bin artifact, data[:fv_len] kept as a view
xfw_extract_fv ==
    /\ pc = "x_parsed"
    /\ pc' = "x_extract"
    /\ outdir' = TRUE
    /\ idx' = 0
    /\ written' = <<[name |-> <<"fv", "bin">>, content |-> Sub(Whole, 0, fv_length)]>>
    /\ UNCHANGED <<data, err, fv_length, header_length, block_map, files, offset,
                   ptr, cur, sec_offset, calls, exit_code>>

\* the artifacts extract writes for one file
xfw_FileArtifacts(i, ffs) ==
    <<[name |-> <<"ffs", i, ffs.guid, "bin">>, content |-> Bytes(ffs.raw)]>>
      \o [j \in 1..Len(ffs.sections) |->
            [name |-> <<"sec", i, j - 1, xfw_type_name(ffs.sections[j]), "bin">>,
             content |-> ffs.sections[j].payload]]

\* extract: one iteration of the loop over self.files
xfw_extract_file ==
    /\ pc = "x_extract"
    /\ idx < Len(files)
    /\ written' = written \o xfw_FileArtifacts(idx, files[idx + 1])
    /\ idx' = idx + 1
    /\ UNCHANGED <<data, pc, err, fv_length, header_length, block_map, files,
                   offset, ptr, cur, sec_offset, calls, outdir, exit_code>>

\* extract_fw.main: "Extraction complete."
xfw_complete ==
    /\ pc = "x_extract"
    /\ idx = Len(files)
    /\ pc' = "x_done"
    /\ exit_code' = 0
    /\ UNCHANGED <<data, err, fv_length, header_length, block_map, files, offset,
                   ptr, cur, sec_offset, calls, idx, outdir, written>>

NextX ==
    \/ xfw_parse_header
    \/ xfw_block_map
    \/ xfw_parse_files
    \/ xfw_parse_sections
    \/ xfw_file_parsed
    \/ xfw_main_exit
    \/ xfw_extract_fv
    \/ xfw_extract_file
    \/ xfw_complete

\* extract_fw.main alone
SpecX == InitX /\ [][NextX]_vars

\* either tool of the repository
SpecAll == (Init \/ InitX) /\ [][Next \/ NextX]_vars

(***************************************************************************)
(* Properties.                                                             *)
(***************************************************************************)
\* data[lo:hi] read straight from the blob, for lo <= hi <= data.len
Input(lo, hi) == [i \in 1..(hi - lo) |-> ByteAt(lo + i - 1)]

\* parse_header has returned normally on this object
HeaderParsed == pc \in {"parse_files", "parse_sections", "parsed", "extract", "done"}
\* fv.parse() has returned normally
ParseSucceeded == pc \in {"parsed", "extract", "done"}
\* fv.parse() has raised
ParseFailed == pc \in {"failed", "exited"}

\* the file being parsed, if any, after the parsed ones
Walked == IF cur = NoFile \/ (files # <<>> /\ files[Len(files)] = cur)
          THEN files ELSE Append(files, cur)

\* C1: once parse_header has succeeded, header_length is the u16 LE at input
\* bytes [0x30, 0x32), and the file walk starts at that offset.
C1_HeaderLengthAt0x30 ==
    HeaderParsed =>
        /\ header_length = U16LE(ByteAt(48), ByteAt(49))
        /\ (pc = "parse_files" /\ files = <<>> => ptr = U16LE(ByteAt(48), ByteAt(49)))

\* C2: parse_header accepts only a blob whose bytes [0x28, 0x2C) are _FVH, and
\* a blob of at least 0x30 bytes whose bytes there differ fails with the
\* bad-signature error, whatever other offsets hold _FVH.
C2_SignatureAt0x28 ==
    /\ (pc = "block_map" \/ HeaderParsed) =>
           data.len >= 44 /\ Input(40, 44) = EFI_FV_SIGNATURE
    /\ (data.len >= 48 /\ Input(40, 44) # EFI_FV_SIGNATURE
          /\ pc \notin {"start", "parse_header"}) =>
           ParseFailed /\ err = "BadSignature"

\* C2 witness: a blob with XFVH at 0x28 and _FVH at 0x40 has been rejected
\* with the bad-signature error.
C2_Witness ==
    /\ data.len >= 68
    /\ Input(40, 44) # EFI_FV_SIGNATURE
    /\ Input(64, 68) = EFI_FV_SIGNATURE
    /\ pc = "exited"
    /\ err = "BadSignature"

\* C3: parse succeeds only if header_length <= fv_length <= len(input).
C3_LengthsChecked ==
    ParseSucceeded => header_length <= fv_length /\ fv_length <= data.len

\* C4: on every input parse ends in success or in a structured parse error,
\* never in an out-of-range read of the buffer (struct.error, IndexError).
C4_NoUnstructuredError ==
    /\ err \notin {"StructError", "IndexError"}
    /\ (data.len < 44 /\ ParseFailed) => err \in {"BadSignature", "TruncatedFv"}

\* the 16 bytes at the cursor are in the blob and all zero
GuidSlotZero(p) == p + 16 <= data.len /\ Input(p, p + 16) = Zeros(16)

\* C5: the file walk stops only with fewer than 24 bytes left before
\* fv_length or on a zero GUID slot (so a record with exactly 24 bytes left and
\* a non-zero GUID is parsed; the blob holds the 24 bytes at the cursor), and
\* no zero-GUID record is in files.
C5_WalkStops ==
    /\ (pc = "parsed" /\ ptr + 24 <= data.len) =>
           (fv_length - ptr < 24 \/ GuidSlotZero(ptr))
    /\ \A i \in DOMAIN files : files[i].guid # Zeros(16)

\* C6: a record whose declared size passes fv_length is not added to files
\* (parsing fails with the truncated-file error instead).
C6_NoTruncatedFile ==
    \A i \in DOMAIN files : files[i].fv_offset + files[i].size <= fv_length

\* C7: no record of declared size below 24 is added to files (parsing fails
\* with the malformed-file error instead).
C7_NoMalformedFile ==
    \A i \in DOMAIN files : files[i].size >= 24

\* C8: no section of declared size below 4, or larger than what is left of
\* the file body, is accepted (parsing fails with the malformed-section error).
C8_NoMalformedSection ==
    \A i \in DOMAIN Walked : \A j \in DOMAIN Walked[i].sections :
        LET f == Walked[i]
            sec == f.sections[j]
        IN  sec.size >= 4 /\ sec.file_offset + sec.size <= f.size

\* C9: no section of type 0x01 whose algorithm byte (the first after the
\* 4-byte header) is not 1 is given a payload (parsing fails with the
\* unsupported-compression error).
C9_UnsupportedCompressionRejected ==
    \A i \in DOMAIN Walked : \A j \in DOMAIN Walked[i].sections :
        LET f == Walked[i]
            sec == f.sections[j]
            at == f.fv_offset + sec.file_offset + 4
        IN  ~(/\ sec.type = 1
              /\ at < Min(data.len, f.fv_offset + Min(f.size, sec.file_offset + sec.size))
              /\ ByteAt(at) # 1)

RoundedUp(n, m) == CHOOSE k \in n..(n + m - 1) : k % m = 0

\* C11: in either extractor, consecutive sections of a file start at offsets
\* that differ by the previous section's declared size rounded up to a
\* multiple of 4.
C11_SectionStrideIs4 ==
    \A i \in 1..Len(Walked) :
        \A j \in 1..(Len(Walked[i].sections) - 1) :
            Walked[i].sections[j + 1].file_offset
              = Walked[i].sections[j].file_offset
                  + RoundedUp(Walked[i].sections[j].size, 4)

\* C12: every time the file walk has parsed a file it moves its cursor to the
\* file's FV offset plus its declared size rounded up to the next multiple of
\* 8, and in the files of one walk each entry after the first starts where the
\* cursor was moved to.
C12_FileStrideIs8 ==
    /\ [][pc = "parse_sections" /\ pc' = "parse_files"
            => /\ files' = Append(files, cur)
               /\ ptr' = cur.fv_offset + RoundedUp(cur.size, 8)]_vars
    /\ [](calls = 1 =>
            \A i \in 1..(Len(Walked) - 1) :
                Walked[i + 1].fv_offset
                  = Walked[i].fv_offset + RoundedUp(Walked[i].size, 8))

\* two files parsed, the first of a size that is no multiple of 8
C12_Witness ==
    /\ calls = 1
    /\ ParseSucceeded
    /\ Len(files) >= 2
    /\ files[1].size % 8 # 0
    /\ files[1].size >= 24

\* the strides of a sequence of files, added up
RECURSIVE PaddedSizes(_)
PaddedSizes(fs) ==
    IF fs = <<>> THEN 0 ELSE RoundedUp(Head(fs).size, 8) + PaddedSizes(Tail(fs))

\* C13: when parse has succeeded, the declared sizes of the files, each
\* rounded up to a multiple of 8, add up to at most fv_length - header_length.
C13_FilesFitFileArea ==
    ParseSucceeded /\ calls = 1
        => PaddedSizes(files) <= fv_length - header_length

\* C14: every parsed section whose type tag is not 0x01 exposes as payload
\* the input bytes [start + 4, start + size), size - 4 of them, where start is
\* the section's offset in the blob.
C14_PlainPayloadIsBody ==
    \A i \in 1..Len(Walked) :
        \A j \in 1..Len(Walked[i].sections) :
            LET sec == Walked[i].sections[j]
                start == Walked[i].fv_offset + sec.file_offset
            IN  sec.type # EFI_SECTION_COMPR
                  => /\ Len(sec.payload) = sec.size - 4
                     /\ sec.payload = Input(start + 4, start + sec.size)

\* the section that the next iteration of the section walk reads
NextSectionStart == cur.fv_offset + sec_offset

\* C15: every parsed section with type tag 0x01 and algorithm byte 1 exposes
\* the LZMA decompression of its bytes [8, size), whatever its declared
\* uncompressed size; and reading such a section whose bytes [8, size)
\* decompress neither fails the parse nor ends the section walk.
C15_CompressedPayload ==
    /\ [](\A i \in 1..Len(Walked) :
            \A j \in 1..Len(Walked[i].sections) :
                LET sec == Walked[i].sections[j]
                    start == Walked[i].fv_offset + sec.file_offset
                    plain == lzma_decompress(Input(start + 8, start + sec.size))
                IN  sec.type = EFI_SECTION_COMPR /\ sec.attrs = 1
                      => plain.ok /\ sec.payload = plain.out)
    /\ [][/\ pc = "parse_sections"
          /\ SectionLoopRuns(sec_offset, cur.size)
          /\ NextSectionStart + 8 <= data.len
          /\ ByteAt(NextSectionStart) = EFI_SECTION_COMPR
          /\ ByteAt(NextSectionStart + 4) = 1
          /\ lzma_decompress(Input(NextSectionStart + 8,
                                   NextSectionStart
                                     + U24LE(ByteAt(NextSectionStart + 1),
                                             ByteAt(NextSectionStart + 2),
                                             ByteAt(NextSectionStart + 3)))).ok
          => /\ pc' = "parse_sections"
             /\ Len(cur'.sections) = Len(cur.sections) + 1]_vars

\* the (num_blocks, block_length) entry number k of the block map area
BlockMapEntry(k) ==
    <<U16LE(ByteAt(48 + 4 * k), ByteAt(49 + 4 * k)),
      U16LE(ByteAt(50 + 4 * k), ByteAt(51 + 4 * k))>>

\* C16: after parse_header, block_map holds every entry read from offset
\* 0x30 on, and the entry that ended the loop is (0, 0): an entry with one
\* zero field is stored and does not end the block map.
C16_BlockMapEndsAtZeroPair ==
    HeaderParsed /\ calls = 1
        => /\ block_map = [k \in 1..Len(block_map) |-> BlockMapEntry(k - 1)]
           /\ BlockMapEntry(Len(block_map)) = <<0, 0>>

\* the artifacts written, as a set
Written == { written[k] : k \in 1..Len(written) }

\* the pairs (i, j) of a parsed file and one of its sections
SectionsOfFiles ==
    { ij \in (1..Len(files)) \X (1..MaxSections) : ij[2] <= Len(files[ij[1]].sections) }

\* the first size bytes of file i of files, as far as the blob holds them
FileRecord(i) ==
    Input(files[i].fv_offset, Min(files[i].fv_offset + files[i].size, data.len))

\* the artifacts named file_<ii>_<guid>.ffs and file_<ii>_sec_<jj>_<type_name>.bin
UefiArtifacts ==
    { [name |-> <<"file", i - 1, files[i].guid, "ffs">>, content |-> FileRecord(i)] :
        i \in 1..Len(files) }
      \cup { [name |-> <<"file", ij[1] - 1, "sec", ij[2] - 1,
                         type_name(files[ij[1]].sections[ij[2]]), "bin">>,
              content |-> files[ij[1]].sections[ij[2]].payload] :
               ij \in SectionsOfFiles }

\* the artifacts named ffs_<ii>_<guid>.bin and sec_<ii>_<jj>_<type_name>.bin
XfwArtifacts ==
    { [name |-> <<"ffs", i - 1, files[i].guid, "bin">>,
       content |-> Input(files[i].fv_offset,
                         files[i].fv_offset + VLen(files[i].raw))] :
        i \in 1..Len(files) }
      \cup { [name |-> <<"sec", ij[1] - 1, ij[2] - 1,
                         xfw_type_name(files[ij[1]].sections[ij[2]]), "bin">>,
              content |-> files[ij[1]].sections[ij[2]].payload] :
               ij \in SectionsOfFiles }

\* fv.bin holding the input bytes [0, n)
FvBin(n) == [name |-> <<"fv", "bin">>, content |-> [lo |-> 0, hi |-> n]]

Extracting == pc \in {"extract", "done", "x_extract", "x_done"}

\* C18: the output directory exists and artifacts are written only once the
\* whole parse has succeeded: while the parse runs, and after it has failed,
\* there is no output directory and no artifact, and no step taken before the
\* parse has succeeded creates one.
C18_WritesOnlyAfterParse ==
    /\ [](~Extracting => ~outdir /\ written = <<>>)
    /\ [][(outdir' # outdir \/ written' # written) => Extracting']_vars

\* a parse has failed at the FV level and main has exited
C18_Witness ==
    /\ pc \in {"exited", "x_exited"}
    /\ err \in {"BadSignature", "StructError", "HeaderNotFound"}
    /\ files = <<>>
    /\ exit_code = 1

\* C19: the file walk of parse_files ends on every input because every
\* iteration that parses a file moves the cursor strictly forward.
C19_FileCursorIncreases ==
    [][pc = "parse_sections" /\ pc' = "parse_files" => ptr' > ptr]_vars

\* C20: the section walk of parse_sections ends on every file body because
\* every iteration that parses a section moves the section offset strictly
\* forward.
C20_SectionOffsetIncreases ==
    [][pc = "parse_sections" /\ pc' = "parse_sections"
         => sec_offset' > sec_offset]_vars

\* what one call of parse leaves: block_map is the entries read from 0x30 up
\* to the one that ended the loop, files holds the files of the walk once, in
\* the order of the walk
OneParse ==
    /\ block_map = [k \in 1..((offset - 52) \div 4) |-> BlockMapEntry(k - 1)]
    /\ \A i \in 1..Len(files) : \A j \in 1..Len(files) :
          i < j => files[i].fv_offset < files[j].fv_offset

\* C21: parse is idempotent on one object: when a second call of parse on the
\* same FirmwareVolume has returned, block_map and files are what the first
\* call left, with no entry duplicated.
C21_ParseIdempotent ==
    pc = "parsed" /\ calls = 2 => OneParse

=============================================================================
